---- MODULE Spec2Model ----
(***************************************************************************)
(* go-lcp-radix: a radix tree with longest-common-prefix matching.         *)
(*                                                                         *)
(* Two containers are modelled from their Go source:                       *)
(*   Tree            (sequential, generic revision)                        *)
(*   ConcurrentTree  (per-node sync.RWMutex)                               *)
(* Nodes live in an arena (a sequence of records); a *Node is an index     *)
(* into the arena and the nil pointer is Nil.  A *T value is a positive    *)
(* number and the nil *T is Nil.                                           *)
(***************************************************************************)
EXTENDS Integers, Sequences, FiniteSets, TLC

VARIABLES
    tree,      \* the arena of the sequential Tree; tree[Root] is Tree.Root
    ctree,     \* the arena of the ConcurrentTree; ctree[Root] is ConcurrentTree.Root
    live,      \* history: key -> the value of its latest Insert, Nil once removed
    handle,    \* history: key -> the *Node its latest Tree.Insert returned
    chandle,   \* history: key -> the node its latest ConcurrentTree.Insert returned
    nIns,      \* history: number of Insert calls so far
    nRem,      \* history: number of RemoveNode calls so far
    dup,       \* history: some key was inserted more than once
    last,      \* history: the latest call and what it was applied to
    proc,      \* goroutine -> the call it runs: its position and its locals
    wlock,     \* goroutine -> the nodes whose write lock it has claimed
    rlock,     \* goroutine -> the nodes whose read lock it holds
    crashed,   \* the runtime stopped the program (fatal error)
    insLog,    \* history: the keys of the concurrent tree's Insert calls, in call order
    remCalls   \* history: key -> number of RemoveNode calls on its node

seqVars == <<tree, handle, nRem, dup, last>>
conVars == <<proc, wlock, rlock, crashed, insLog, remCalls>>
vars == <<tree, ctree, live, handle, chandle, nIns, nRem, dup, last,
          proc, wlock, rlock, crashed, insLog, remCalls>>

\* ------------------------------------------------------------------ bounds
NumUnits == 2        \* size of the key alphabet K
MaxKeyLen == 3       \* longest key / query
MaxInserts == 3      \* Insert calls per behaviour (single-caller specification)
MaxRemoves == 2      \* RemoveNode calls per behaviour (single-caller specification)
NProcs == 2          \* goroutines, one call each (concurrent specification)
MaxSetup == 1        \* Inserts made before the goroutines start
ConcKeyLen == 2      \* longest key / query of goroutines that mix the four calls

Nil == 0
Root == 1
Alphabet == 1..NumUnits
Procs == 1..NProcs

RECURSIVE SeqsOfLen(_)
SeqsOfLen(n) ==
    IF n = 0 THEN {<<>>}
    ELSE {Append(s, u) : s \in SeqsOfLen(n - 1), u \in Alphabet}

\* the queries: every unit sequence of length 0..MaxKeyLen
Queries == UNION {SeqsOfLen(n) : n \in 0..MaxKeyLen}
\* the keys a caller inserts: the non-empty ones
Keys == Queries \ {<<>>}
\* the keys and queries of the goroutines that mix the four calls
ShortQueries == UNION {SeqsOfLen(n) : n \in 0..ConcKeyLen}
ShortKeys == ShortQueries \ {<<>>}

\* Go slices: s[from:] and s[:to]
SliceFrom(s, from) == SubSeq(s, from + 1, Len(s))
SliceTo(s, to) == SubSeq(s, 1, to)

\* ------------------------------------------------------ longestPrefix
RECURSIVE longestPrefixFrom(_, _, _)
longestPrefixFrom(a, b, i) ==
    IF i < Len(a) /\ i < Len(b)
    THEN IF a[i + 1] # b[i + 1] THEN i ELSE longestPrefixFrom(a, b, i + 1)
    ELSE i

longestPrefix(a, b) == longestPrefixFrom(a, b, 0)

\* ------------------------------------------------------ maps of children
NoChildren == [u \in Alphabet |-> Nil]
ChildSet(n) == {n.Children[u] : u \in Alphabet} \ {Nil}
NumChildren(n) == Cardinality({u \in Alphabet : n.Children[u] # Nil})

\* ==================================================================
\* Sequential Tree
\* ==================================================================
NewNode(text, val) ==
    [Text |-> text, Val |-> val, End |-> TRUE, Children |-> NoChildren, Parent |-> Nil]

NewIntermediateNode(text, val) ==
    [Text |-> text, Val |-> val, End |-> FALSE, Children |-> NoChildren, Parent |-> Nil]

\* n.AddChild(node) on arena t
Node_AddChild(t, n, node) ==
    IF Len(t[node].Text) = 0 THEN t
    ELSE [t EXCEPT ![node].Parent = n, ![n].Children[t[node].Text[1]] = node]

\* n.GetChild(head): the child, or Nil when ok is false
Node_GetChild(t, n, head) == t[n].Children[head]

NewTree ==
    << [Text |-> <<>>, Val |-> Nil, End |-> FALSE, Children |-> NoChildren, Parent |-> Nil] >>

\* the split branch of Tree.Insert
Tree_InsertSplit(t, str, val, cur, next, index, sharedPrefix) ==
    LET commonNode == Len(t) + 1
        t1 == Append(t, NewIntermediateNode(SliceTo(t[next].Text, sharedPrefix), val))
        t2 == Node_AddChild(t1, cur, commonNode)
        t3 == IF t2[cur].Parent # Nil THEN [t2 EXCEPT ![cur].Val = val] ELSE t2
        t4 == [t3 EXCEPT ![next].Text = SliceFrom(t3[next].Text, sharedPrefix)]
        t5 == Node_AddChild(t4, commonNode, next)
    IN  IF index + sharedPrefix < Len(str)
        THEN LET newNode == Len(t5) + 1
                 t6 == Append(t5, NewNode(SliceFrom(str, index + sharedPrefix), val))
             IN  [tree |-> Node_AddChild(t6, commonNode, newNode), node |-> newNode]
        ELSE [tree |-> [t5 EXCEPT ![commonNode].End = TRUE], node |-> commonNode]

RECURSIVE Tree_InsertLoop(_, _, _, _, _)
Tree_InsertLoop(t, str, val, mark, index) ==
    IF index < Len(str)
    THEN LET cur == mark
             char == str[index + 1]
             next == Node_GetChild(t, cur, char)
         IN  IF next = Nil
             THEN LET newNode == Len(t) + 1
                      t1 == Append(t, NewNode(SliceFrom(str, index), val))
                  IN  [tree |-> Node_AddChild(t1, cur, newNode), node |-> newNode]
             ELSE LET sharedPrefix == longestPrefix(t[next].Text, SliceFrom(str, index))
                  IN  IF sharedPrefix < Len(t[next].Text)
                      THEN Tree_InsertSplit(t, str, val, cur, next, index, sharedPrefix)
                      ELSE Tree_InsertLoop(t, str, val, next, index + sharedPrefix)
    ELSE [tree |-> [t EXCEPT ![mark].Val = val, ![mark].End = TRUE], node |-> mark]

\* Tree.Insert(str, val): the new arena and the returned *Node (Nil for an empty key)
Tree_Insert(t, str, val) ==
    IF Len(str) = 0 THEN [tree |-> t, node |-> Nil]
    ELSE Tree_InsertLoop(t, str, val, Root, 0)

\* the descent that leaves the units matched inside an edge out of the prefix
RECURSIVE Tree_LCPLoop_WholeEdges(_, _, _, _, _)
Tree_LCPLoop_WholeEdges(t, str, mark, index, commonPrefix) ==
    IF index < Len(str)
    THEN LET next == Node_GetChild(t, mark, str[index + 1])
         IN  IF next = Nil
             THEN [prefix |-> commonPrefix, val |-> t[mark].Val, exact |-> FALSE]
             ELSE LET sharedPrefix == longestPrefix(t[next].Text, SliceFrom(str, index))
                  IN  IF sharedPrefix < Len(t[next].Text)
                      THEN [prefix |-> commonPrefix, val |-> t[next].Val, exact |-> FALSE]
                      ELSE Tree_LCPLoop_WholeEdges(t, str, next, index + sharedPrefix,
                                                   commonPrefix \o t[next].Text)
    ELSE [prefix |-> commonPrefix, val |-> t[mark].Val, exact |-> t[mark].End]

RECURSIVE Tree_LCPLoop(_, _, _, _, _)
Tree_LCPLoop(t, str, mark, index, commonPrefix) ==
    IF index < Len(str)
    THEN LET next == Node_GetChild(t, mark, str[index + 1])
         IN  IF next = Nil
             THEN [prefix |-> commonPrefix, val |-> t[mark].Val, exact |-> FALSE]
             ELSE LET sharedPrefix == longestPrefix(t[next].Text, SliceFrom(str, index))
                      cp == commonPrefix \o SliceTo(t[next].Text, sharedPrefix)
                  IN  IF sharedPrefix < Len(t[next].Text)
                      THEN [prefix |-> cp, val |-> t[next].Val, exact |-> FALSE]
                      ELSE Tree_LCPLoop(t, str, next, index + sharedPrefix, cp)
    ELSE [prefix |-> commonPrefix, val |-> t[mark].Val, exact |-> t[mark].End]

\* Tree.LongestCommonPrefixMatch(str)
Tree_LongestCommonPrefixMatch(t, str) == Tree_LCPLoop(t, str, Root, 0, <<>>)

\* RemoveNode that unlinks the leaf and leaves a parent without children linked
Tree_RemoveNode_NoCascade(t, node) ==
    IF NumChildren(t[node]) > 0
    THEN {[t EXCEPT ![node].Val = t[c].Val, ![node].End = FALSE] : c \in ChildSet(t[node])}
    ELSE LET parent == t[node].Parent
             t1 == [t EXCEPT ![node].Parent = Nil]
         IN  IF parent = Nil THEN {t1}
             ELSE LET t2 == [t1 EXCEPT ![parent].Children[t1[node].Text[1]] = Nil]
                  IN  IF t2[parent].Parent = Nil \/ NumChildren(t2[parent]) = 0
                      THEN {t2}
                      ELSE {[t2 EXCEPT ![parent].Val = t2[c].Val] :
                               c \in ChildSet(t2[parent])}

\* Tree.RemoveNode(node): the set of arenas the call can leave, one per order
\* in which Go may range over a map
RECURSIVE Tree_RemoveNode(_, _)
Tree_RemoveNode(t, node) ==
    IF NumChildren(t[node]) > 0
    THEN {[t EXCEPT ![node].Val = t[c].Val, ![node].End = FALSE] : c \in ChildSet(t[node])}
    ELSE LET parent == t[node].Parent
             t1 == [t EXCEPT ![node].Parent = Nil]
         IN  IF parent = Nil THEN {t1}
             ELSE LET t2 == [t1 EXCEPT ![parent].Children[t1[node].Text[1]] = Nil]
                  IN  IF NumChildren(t2[parent]) = 0 /\ ~t2[parent].End
                      THEN Tree_RemoveNode(t2, parent)
                      ELSE IF t2[parent].Parent = Nil \/ NumChildren(t2[parent]) = 0
                           THEN {t2}
                           ELSE {[t2 EXCEPT ![parent].Val = t2[c].Val] :
                                    c \in ChildSet(t2[parent])}

\* ==================================================================
\* ConcurrentTree: the code of each call, as run by a single caller
\* ==================================================================
NewConcurrentNode(text, val, end) ==
    [Text |-> text, Val |-> val, End |-> end, Deleted |-> FALSE,
     Children |-> NoChildren, Parent |-> Nil]

\* AddChild that files the child under the last unit of its text
ConcurrentNode_AddChild_LastUnit(t, n, node) ==
    IF Len(t[node].Text) = 0 THEN t
    ELSE [t EXCEPT ![node].Parent = n,
                   ![n].Children[t[node].Text[Len(t[node].Text)]] = node]

\* n.AddChild(node) on arena t
ConcurrentNode_AddChild(t, n, node) ==
    IF Len(t[node].Text) = 0 THEN t
    ELSE [t EXCEPT ![node].Parent = n, ![n].Children[t[node].Text[1]] = node]

\* n.GetChild(head): the child, or Nil when ok is false
ConcurrentNode_GetChild(t, n, head) == t[n].Children[head]

NewConcurrentTree == << NewConcurrentNode(<<>>, Nil, FALSE) >>

\* the no-match branch that writes the map entry and leaves newNode.Parent unset
ConcurrentTree_InsertNoMatch_NoParent(t, str, val, cur, index) ==
    LET newNode == Len(t) + 1
        t1 == Append(t, NewConcurrentNode(SliceFrom(str, index), val, FALSE))
    IN  [tree |-> [t1 EXCEPT ![cur].Children[str[index + 1]] = newNode],
         node |-> newNode]

\* the no-match branch of ConcurrentTree.Insert (cur is locked)
ConcurrentTree_InsertNoMatch(t, str, val, cur, index) ==
    LET newNode == Len(t) + 1
        t1 == Append(t, NewConcurrentNode(SliceFrom(str, index), val, FALSE))
    IN  [tree |-> ConcurrentNode_AddChild(t1, cur, newNode), node |-> newNode]

\* the value update that does not test for the root
ConcurrentTree_InsertParentVal_NoRootTest(t, val, cur) ==
    [t EXCEPT ![cur].Val = val]

\* the value update of the split branch: cur takes the new value unless it
\* is the root
ConcurrentTree_InsertParentVal(t, val, cur) ==
    IF t[cur].Parent # Nil THEN [t EXCEPT ![cur].Val = val] ELSE t

\* the split that leaves next.Text as it was
ConcurrentTree_InsertSplit_KeepsText(t, str, val, cur, next, index, sharedPrefix) ==
    LET commonNode == Len(t) + 1
        t1 == Append(t, NewConcurrentNode(SliceTo(t[next].Text, sharedPrefix), val, FALSE))
        t2 == ConcurrentNode_AddChild(t1, cur, commonNode)
        t3 == ConcurrentTree_InsertParentVal(t2, val, cur)
        t5 == ConcurrentNode_AddChild(t3, commonNode, next)
    IN  IF index + sharedPrefix < Len(str)
        THEN LET newNode == Len(t5) + 1
                 t6 == Append(t5, NewConcurrentNode(SliceFrom(str, index + sharedPrefix),
                                                    val, TRUE))
                 t7 == [t6 EXCEPT ![commonNode].Val = Nil]
             IN  [tree |-> ConcurrentNode_AddChild(t7, commonNode, newNode),
                  node |-> newNode]
        ELSE [tree |-> t5, node |-> commonNode]

\* the split branch of ConcurrentTree.Insert (cur and next are locked)
ConcurrentTree_InsertSplit(t, str, val, cur, next, index, sharedPrefix) ==
    LET commonNode == Len(t) + 1
        t1 == Append(t, NewConcurrentNode(SliceTo(t[next].Text, sharedPrefix), val, FALSE))
        t2 == ConcurrentNode_AddChild(t1, cur, commonNode)
        t3 == ConcurrentTree_InsertParentVal(t2, val, cur)
        t4 == [t3 EXCEPT ![next].Text = SliceFrom(t3[next].Text, sharedPrefix)]
        t5 == ConcurrentNode_AddChild(t4, commonNode, next)
    IN  IF index + sharedPrefix < Len(str)
        THEN LET newNode == Len(t5) + 1
                 t6 == Append(t5, NewConcurrentNode(SliceFrom(str, index + sharedPrefix),
                                                    val, TRUE))
                 t7 == [t6 EXCEPT ![commonNode].Val = Nil]
             IN  [tree |-> ConcurrentNode_AddChild(t7, commonNode, newNode),
                  node |-> newNode]
        ELSE [tree |-> t5, node |-> commonNode]

\* the overwrite that keeps the value the node has
ConcurrentTree_InsertMark_FirstWins(t, val, mark) ==
    [tree |-> [t EXCEPT ![mark].End = TRUE], node |-> mark]

\* the overwrite after the loop of ConcurrentTree.Insert (mark is locked)
ConcurrentTree_InsertMark(t, val, mark) ==
    [tree |-> [t EXCEPT ![mark].Val = val, ![mark].End = TRUE], node |-> mark]

RECURSIVE ConcurrentTree_InsertLoop(_, _, _, _, _)
ConcurrentTree_InsertLoop(t, str, val, mark, index) ==
    IF index < Len(str)
    THEN LET cur == mark
             char == str[index + 1]
             next == ConcurrentNode_GetChild(t, cur, char)
         IN  IF next = Nil
             THEN ConcurrentTree_InsertNoMatch(t, str, val, cur, index)
             ELSE LET sharedPrefix == longestPrefix(t[next].Text, SliceFrom(str, index))
                  IN  IF sharedPrefix < Len(t[next].Text)
                      THEN ConcurrentTree_InsertSplit(t, str, val, cur, next, index,
                                                      sharedPrefix)
                      ELSE ConcurrentTree_InsertLoop(t, str, val, next,
                                                     index + sharedPrefix)
    ELSE ConcurrentTree_InsertMark(t, val, mark)

\* ConcurrentTree.Insert without the test for the empty key
ConcurrentTree_Insert_NoEmptyTest(t, str, val) ==
    ConcurrentTree_InsertLoop(t, str, val, Root, 0)

\* ConcurrentTree.Insert(str, val): the new arena and the returned node
ConcurrentTree_Insert(t, str, val) ==
    IF Len(str) = 0 THEN [tree |-> t, node |-> Nil]
    ELSE ConcurrentTree_InsertLoop(t, str, val, Root, 0)

\* dfsNodeForValue(root): the values the search can return, one per order in
\* which Go may range over the children maps; {Nil} when the subtree holds none
RECURSIVE dfsNodeForValue(_, _)
dfsNodeForValue(t, root) ==
    IF t[root].Val # Nil THEN {t[root].Val}
    ELSE LET found == UNION {dfsNodeForValue(t, c) \ {Nil} : c \in ChildSet(t[root])}
         IN  IF found = {} THEN {Nil} ELSE found

\* the descent that compares the edge before it takes the value of the child
RECURSIVE ConcurrentTree_LCPLoop_EdgeFirst(_, _, _, _, _, _, _)
ConcurrentTree_LCPLoop_EdgeFirst(t, str, cur, index, commonPrefix, val, isIntermediate) ==
    IF index < Len(str)
    THEN LET next == ConcurrentNode_GetChild(t, cur, str[index + 1])
         IN  IF next = Nil
             THEN {[prefix |-> commonPrefix, val |-> val, exact |-> FALSE]}
             ELSE LET nextText == t[next].Text
                      val2 == IF t[next].Val # Nil THEN t[next].Val ELSE val
                      isIntermediate2 == (t[next].Val = Nil)
                      sharedPrefix == longestPrefix(nextText, SliceFrom(str, index))
                      cp == commonPrefix \o SliceTo(nextText, sharedPrefix)
                  IN  IF sharedPrefix < Len(nextText)
                      THEN {[prefix |-> cp, val |-> val, exact |-> FALSE]}
                      ELSE ConcurrentTree_LCPLoop_EdgeFirst(t, str, next,
                                                            index + sharedPrefix,
                                                            cp, val2, isIntermediate2)
    ELSE IF isIntermediate
         THEN {[prefix |-> commonPrefix,
                val |-> IF childVal # Nil THEN childVal ELSE val,
                exact |-> FALSE] : childVal \in dfsNodeForValue(t, cur)}
         ELSE {[prefix |-> commonPrefix, val |-> val, exact |-> TRUE]}

\* the descent loop of ConcurrentTree.LongestCommonPrefixMatch; the result is
\* the set of triples the call can return
RECURSIVE ConcurrentTree_LCPLoop(_, _, _, _, _, _, _)
ConcurrentTree_LCPLoop(t, str, cur, index, commonPrefix, val, isIntermediate) ==
    IF index < Len(str)
    THEN LET next == ConcurrentNode_GetChild(t, cur, str[index + 1])
         IN  IF next = Nil
             THEN {[prefix |-> commonPrefix, val |-> val, exact |-> FALSE]}
             ELSE LET nextText == t[next].Text
                      val2 == IF t[next].Val # Nil THEN t[next].Val ELSE val
                      isIntermediate2 == (t[next].Val = Nil)
                      sharedPrefix == longestPrefix(nextText, SliceFrom(str, index))
                      cp == commonPrefix \o SliceTo(nextText, sharedPrefix)
                  IN  IF sharedPrefix < Len(nextText)
                      THEN {[prefix |-> cp, val |-> val2, exact |-> FALSE]}
                      ELSE ConcurrentTree_LCPLoop(t, str, next, index + sharedPrefix,
                                                  cp, val2, isIntermediate2)
    ELSE IF isIntermediate
         THEN {[prefix |-> commonPrefix,
                val |-> IF childVal # Nil THEN childVal ELSE val,
                exact |-> FALSE] : childVal \in dfsNodeForValue(t, cur)}
         ELSE {[prefix |-> commonPrefix, val |-> val, exact |-> TRUE]}

\* ConcurrentTree.LongestCommonPrefixMatch(str)
ConcurrentTree_LongestCommonPrefixMatch(t, str) ==
    ConcurrentTree_LCPLoop(t, str, Root, 0, <<>>, Nil, FALSE)

\* RemoveNode that clears the value and leaves the end flag
ConcurrentTree_RemoveNode_KeepsEnd(t, node) ==
    IF t[node].Parent = Nil THEN t
    ELSE [t EXCEPT ![node].Val = Nil, ![node].Deleted = TRUE]

\* ConcurrentTree.RemoveNode(node)
ConcurrentTree_RemoveNode(t, node) ==
    IF t[node].Parent = Nil THEN t
    ELSE [t EXCEPT ![node].Val = Nil, ![node].End = FALSE, ![node].Deleted = TRUE]

\* ==================================================================
\* One caller driving a Tree and a ConcurrentTree with the same calls
\* ==================================================================
\* a goroutine that has not made its call: the locals of the four calls
IdleCall ==
    [pc |-> "idle", op |-> "none", str |-> <<>>, val |-> Nil, node |-> Nil,
     cur |-> Nil, next |-> Nil, index |-> 0, commonPrefix |-> <<>>,
     isIntermediate |-> FALSE, exact |-> FALSE, children |-> <<>>,
     child |-> Nil, candidates |-> <<>>, expect |-> Nil]

NoCall ==
    [op |-> "none", key |-> <<>>, cnode |-> Nil, cparent |-> Nil, cleaf |-> FALSE,
     node |-> Nil, leaf |-> FALSE]

Init ==
    /\ tree = NewTree
    /\ ctree = NewConcurrentTree
    /\ live = [k \in Keys |-> Nil]
    /\ handle = [k \in Keys |-> Nil]
    /\ chandle = [k \in Keys |-> Nil]
    /\ nIns = 0
    /\ nRem = 0
    /\ dup = FALSE
    /\ last = NoCall
    /\ proc = [p \in Procs |-> IdleCall]
    /\ wlock = [p \in Procs |-> {}]
    /\ rlock = [p \in Procs |-> {}]
    /\ crashed = FALSE
    /\ insLog = <<>>
    /\ remCalls = [k \in Keys |-> 0]

\* tree.Insert(key, v) and ctree.Insert(key, v); the value of the i-th Insert
\* is i, so that every stored value names the call that stored it
CallInsert(key) ==
    /\ nIns < MaxInserts
    /\ LET val == nIns + 1
           r == Tree_Insert(tree, key, val)
           c == ConcurrentTree_Insert(ctree, key, val)
       IN  /\ tree' = r.tree
           /\ ctree' = c.tree
           /\ live' = [live EXCEPT ![key] = val]
           /\ handle' = [handle EXCEPT ![key] = r.node]
           /\ chandle' = [chandle EXCEPT ![key] = c.node]
           /\ dup' = (dup \/ handle[key] # Nil)
           /\ last' = [NoCall EXCEPT !.op = "insert", !.key = key,
                                     !.cnode = c.node, !.node = r.node]
    /\ nIns' = nIns + 1
    /\ UNCHANGED <<nRem, conVars>>

\* tree.RemoveNode(h) and ctree.RemoveNode(h') for the handles of a key that is
\* in the trees
CallRemoveNode(key) ==
    /\ nRem < MaxRemoves
    /\ live[key] # Nil
    /\ tree' \in Tree_RemoveNode(tree, handle[key])
    /\ ctree' = ConcurrentTree_RemoveNode(ctree, chandle[key])
    /\ live' = [live EXCEPT ![key] = Nil]
    /\ last' = [op |-> "remove", key |-> key,
                cnode |-> chandle[key], cparent |-> ctree[chandle[key]].Parent,
                cleaf |-> (NumChildren(ctree[chandle[key]]) = 0),
                node |-> handle[key],
                leaf |-> (NumChildren(tree[handle[key]]) = 0)]
    /\ nRem' = nRem + 1
    /\ UNCHANGED <<handle, chandle, nIns, dup, conVars>>

\* tree.Insert([]K{}, v) and ctree.Insert([]K{}, v); the call is not counted
\* in nIns
CallInsertEmpty ==
    LET val == nIns + 1
        r == Tree_Insert(tree, <<>>, val)
        c == ConcurrentTree_Insert(ctree, <<>>, val)
    IN  /\ tree' = r.tree
        /\ ctree' = c.tree
        /\ last' = [NoCall EXCEPT !.op = "insertEmpty", !.cnode = c.node, !.node = r.node]
        /\ UNCHANGED <<live, handle, chandle, nIns, nRem, dup, conVars>>

\* tree.RemoveNode(tree.Root) and ctree.RemoveNode(ctree.Root)
CallRemoveRoot ==
    /\ nRem < MaxRemoves
    /\ tree' \in Tree_RemoveNode(tree, Root)
    /\ ctree' = ConcurrentTree_RemoveNode(ctree, Root)
    /\ last' = [NoCall EXCEPT !.op = "removeRoot", !.cnode = Root, !.node = Root]
    /\ nRem' = nRem + 1
    /\ UNCHANGED <<live, handle, chandle, nIns, dup, conVars>>

\* RemoveNode once more on the handles of a key that was removed and not
\* inserted again
CallRemoveAgain(key) ==
    /\ nRem < MaxRemoves
    /\ handle[key] # Nil
    /\ live[key] = Nil
    /\ tree' \in Tree_RemoveNode(tree, handle[key])
    /\ ctree' = ConcurrentTree_RemoveNode(ctree, chandle[key])
    /\ last' = [NoCall EXCEPT !.op = "removeAgain", !.key = key,
                              !.cnode = chandle[key], !.node = handle[key]]
    /\ nRem' = nRem + 1
    /\ UNCHANGED <<live, handle, chandle, nIns, dup, conVars>>

\* the value of a node the caller builds itself: one that no Insert stores
ExternalVal == MaxInserts + 1

\* what RemoveNode leaves of an arena t when it is called on a node the caller
\* built and never attached: the arenas with that node as their newest
Tree_RemoveExternal(t, text) ==
    Tree_RemoveNode(Append(t, NewNode(text, ExternalVal)), Len(t) + 1)

ConcurrentTree_RemoveExternal(t, text) ==
    ConcurrentTree_RemoveNode(Append(t, NewConcurrentNode(text, ExternalVal, TRUE)),
                              Len(t) + 1)

\* RemoveNode on a node the caller built with NewNode / NewConcurrentNode and
\* never attached; the caller drops the node after the call
CallRemoveExternal(text) ==
    /\ nRem < MaxRemoves
    /\ tree' \in {SliceTo(t, Len(tree)) : t \in Tree_RemoveExternal(tree, text)}
    /\ ctree' = SliceTo(ConcurrentTree_RemoveExternal(ctree, text), Len(ctree))
    /\ last' = [NoCall EXCEPT !.op = "removeExternal", !.key = text]
    /\ nRem' = nRem + 1
    /\ UNCHANGED <<live, handle, chandle, nIns, dup, conVars>>

Next ==
    \/ \E key \in Keys : CallInsert(key)
    \/ \E key \in Keys : CallRemoveNode(key)
    \/ CallInsertEmpty
    \/ CallRemoveRoot
    \/ \E key \in Keys : CallRemoveAgain(key)
    \/ \E text \in SeqsOfLen(1) : CallRemoveExternal(text)

Spec == Init /\ [][Next]_vars

\* ------------------------------------------------------------------
\* a single caller that inserts distinct keys and then removes each of
\* them once through the handle its Insert returned
\* ------------------------------------------------------------------
\* Insert of a key not inserted before, while nothing has been removed
InsertDistinct(key) ==
    /\ nRem = 0
    /\ handle[key] = Nil
    /\ CallInsert(key)

\* tree.RemoveNode(h) and ctree.RemoveNode(h') on the handles of a key that is
\* in the trees
RemoveByHandle(key) ==
    /\ nIns > 0
    /\ live[key] # Nil
    /\ tree' \in Tree_RemoveNode(tree, handle[key])
    /\ ctree' = ConcurrentTree_RemoveNode(ctree, chandle[key])
    /\ live' = [live EXCEPT ![key] = Nil]
    /\ last' = [op |-> "remove", key |-> key,
                cnode |-> chandle[key], cparent |-> ctree[chandle[key]].Parent,
                cleaf |-> (NumChildren(ctree[chandle[key]]) = 0),
                node |-> handle[key],
                leaf |-> (NumChildren(tree[handle[key]]) = 0)]
    /\ nRem' = nRem + 1
    /\ UNCHANGED <<handle, chandle, nIns, dup, conVars>>

NextRemoveAll ==
    \/ \E key \in Keys : InsertDistinct(key)
    \/ \E key \in Keys : RemoveByHandle(key)

SpecRemoveAll == Init /\ [][NextRemoveAll]_vars

\* ==================================================================
\* ConcurrentTree called by goroutines: one step per lock request and
\* one step for the code that runs once the lock is granted
\* ==================================================================
\* the orders in which Go may range over a map with the keys S
RECURSIVE Orders(_)
Orders(S) ==
    IF S = {} THEN {<<>>}
    ELSE UNION {{<<x>> \o o : o \in Orders(S \ {x})} : x \in S}

\* sync.RWMutex of a node: a writer claims the mutex, which keeps new readers
\* out, and enters once the readers inside have left
WriteClaimed(n) == \E q \in Procs : n \in wlock[q]
ReadHeld(n) == \E q \in Procs : n \in rlock[q]

\* a goroutine is between two steps of the unlocked range over n.Children
Ranging(n) == \E q \in Procs : proc[q].pc = "mul_range" /\ proc[q].cur = n

\* a write to n.Children: the runtime may stop the program when a range over
\* the same map is in progress
MapWrite(n) == IF Ranging(n) THEN {FALSE, TRUE} ELSE {FALSE}

NewMatch(matchLength, value, exactMatch) ==
    [MatchLength |-> matchLength, Value |-> value, ExactMatch |-> exactMatch]

InsCalls(k) == Cardinality({i \in DOMAIN insLog : insLog[i] = k})

\* goroutines are numbered in the order in which they make their call
MayStart(p) ==
    /\ ~crashed
    /\ proc[p].pc = "idle"
    /\ \A q \in Procs : q < p => proc[q].pc # "idle"

\* an Insert made by the caller before it starts the goroutines
SetupInsert(key) ==
    /\ nIns < MaxSetup
    /\ \A p \in Procs : proc[p].pc = "idle"
    /\ LET c == ConcurrentTree_Insert(ctree, key, nIns + 1)
       IN  /\ ctree' = c.tree
           /\ chandle' = [chandle EXCEPT ![key] = c.node]
    /\ live' = [live EXCEPT ![key] = nIns + 1]
    /\ nIns' = nIns + 1
    /\ insLog' = Append(insLog, key)
    /\ UNCHANGED <<seqVars, proc, wlock, rlock, crashed, remCalls>>

\* ------------------------------------------------ ConcurrentTree.Insert
GoInsert(p, key) ==
    /\ MayStart(p)
    /\ proc' = [proc EXCEPT ![p] = [IdleCall EXCEPT !.pc = "ins_lockCur", !.op = "Insert",
                                                     !.str = key, !.val = nIns + 1,
                                                     !.cur = Root]]
    /\ nIns' = nIns + 1
    /\ insLog' = Append(insLog, key)
    /\ UNCHANGED <<seqVars, ctree, live, chandle, wlock, rlock, crashed, remCalls>>

\* what the return of Insert leaves: the returned node and the histories
InsertReturn(p, node) ==
    /\ proc' = [proc EXCEPT ![p] = [IdleCall EXCEPT !.pc = "done", !.op = "Insert",
                                                     !.str = proc[p].str,
                                                     !.val = proc[p].val,
                                                     !.node = node]]
    /\ live' = [live EXCEPT ![proc[p].str] = proc[p].val]
    /\ chandle' = [chandle EXCEPT ![proc[p].str] = node]

\* cur.Lock()
Insert_LockCur(p) ==
    /\ ~crashed
    /\ proc[p].pc = "ins_lockCur"
    /\ ~WriteClaimed(proc[p].cur)
    /\ wlock' = [wlock EXCEPT ![p] = @ \cup {proc[p].cur}]
    /\ proc' = [proc EXCEPT ![p].pc = "ins_cur"]
    /\ UNCHANGED <<seqVars, ctree, live, chandle, nIns, rlock, crashed, insLog, remCalls>>

\* cur is locked: GetChild, and the no-match branch
Insert_Cur(p) ==
    LET c == proc[p]
        next == ConcurrentNode_GetChild(ctree, c.cur, c.str[c.index + 1])
    IN  /\ ~crashed
        /\ c.pc = "ins_cur"
        /\ ~ReadHeld(c.cur)
        /\ IF next = Nil
           THEN LET r == ConcurrentTree_InsertNoMatch(ctree, c.str, c.val, c.cur, c.index)
                IN  /\ ctree' = r.tree
                    /\ crashed' \in MapWrite(c.cur)
                    /\ wlock' = [wlock EXCEPT ![p] = @ \ {c.cur}]
                    /\ InsertReturn(p, r.node)
           ELSE /\ proc' = [proc EXCEPT ![p].pc = "ins_lockNext", ![p].next = next]
                /\ UNCHANGED <<ctree, crashed, wlock, live, chandle>>
        /\ UNCHANGED <<seqVars, nIns, rlock, insLog, remCalls>>

\* the step that goes on to the child without taking its lock
Insert_LockNext_NoLock(p) ==
    /\ ~crashed
    /\ proc[p].pc = "ins_lockNext"
    /\ proc' = [proc EXCEPT ![p].pc = "ins_next"]
    /\ UNCHANGED <<seqVars, ctree, live, chandle, nIns, wlock, rlock, crashed, insLog,
                   remCalls>>

\* next.Lock(), with cur locked
Insert_LockNext(p) ==
    /\ ~crashed
    /\ proc[p].pc = "ins_lockNext"
    /\ ~WriteClaimed(proc[p].next)
    /\ wlock' = [wlock EXCEPT ![p] = @ \cup {proc[p].next}]
    /\ proc' = [proc EXCEPT ![p].pc = "ins_next"]
    /\ UNCHANGED <<seqVars, ctree, live, chandle, nIns, rlock, crashed, insLog, remCalls>>

\* cur and next are locked: split, or unlock both and descend
Insert_Next(p) ==
    LET c == proc[p]
        sharedPrefix == longestPrefix(ctree[c.next].Text, SliceFrom(c.str, c.index))
    IN  /\ ~crashed
        /\ c.pc = "ins_next"
        /\ ~ReadHeld(c.next)
        /\ wlock' = [wlock EXCEPT ![p] = @ \ {c.cur, c.next}]
        /\ IF sharedPrefix < Len(ctree[c.next].Text)
           THEN LET r == ConcurrentTree_InsertSplit(ctree, c.str, c.val, c.cur, c.next,
                                                    c.index, sharedPrefix)
                IN  /\ ctree' = r.tree
                    /\ crashed' \in MapWrite(c.cur)
                    /\ InsertReturn(p, r.node)
           ELSE /\ proc' = [proc EXCEPT
                              ![p].pc = IF c.index + sharedPrefix < Len(c.str)
                                        THEN "ins_lockCur" ELSE "ins_lockMark",
                              ![p].index = c.index + sharedPrefix,
                              ![p].cur = c.next,
                              ![p].next = Nil]
                /\ UNCHANGED <<ctree, crashed, live, chandle>>
        /\ UNCHANGED <<seqVars, nIns, rlock, insLog, remCalls>>

\* mark.Lock()
Insert_LockMark(p) ==
    /\ ~crashed
    /\ proc[p].pc = "ins_lockMark"
    /\ ~WriteClaimed(proc[p].cur)
    /\ wlock' = [wlock EXCEPT ![p] = @ \cup {proc[p].cur}]
    /\ proc' = [proc EXCEPT ![p].pc = "ins_mark"]
    /\ UNCHANGED <<seqVars, ctree, live, chandle, nIns, rlock, crashed, insLog, remCalls>>

\* mark is locked: overwrite
Insert_Mark(p) ==
    LET c == proc[p]
        r == ConcurrentTree_InsertMark(ctree, c.val, c.cur)
    IN  /\ ~crashed
        /\ c.pc = "ins_mark"
        /\ ~ReadHeld(c.cur)
        /\ ctree' = r.tree
        /\ wlock' = [wlock EXCEPT ![p] = @ \ {c.cur}]
        /\ InsertReturn(p, r.node)
        /\ UNCHANGED <<seqVars, nIns, rlock, crashed, insLog, remCalls>>

\* ------------------------------ ConcurrentTree.LongestCommonPrefixMatch
\* the value the call has to return by the histories at its start: that of
\* the one Insert of str, when that Insert has returned and no RemoveNode was
\* called on its node
Expected(str) ==
    IF str \in Keys /\ InsCalls(str) = 1 /\ remCalls[str] = 0 THEN live[str] ELSE Nil

LCPReturn(p, commonPrefix, val, exact) ==
    proc' = [proc EXCEPT ![p] = [IdleCall EXCEPT !.pc = "done", !.op = "LCP",
                                                  !.str = proc[p].str,
                                                  !.expect = proc[p].expect,
                                                  !.commonPrefix = commonPrefix,
                                                  !.val = val, !.exact = exact]]

GoLongestCommonPrefixMatch(p, str) ==
    /\ MayStart(p)
    /\ proc' = [proc EXCEPT ![p] =
                  IF Len(str) = 0
                  THEN [IdleCall EXCEPT !.pc = "done", !.op = "LCP", !.exact = TRUE]
                  ELSE [IdleCall EXCEPT !.pc = "lcp_rlockCur", !.op = "LCP", !.str = str,
                                        !.cur = Root, !.expect = Expected(str)]]
    /\ UNCHANGED <<seqVars, ctree, live, chandle, nIns, wlock, rlock, crashed, insLog,
                   remCalls>>

\* cur.RLock()
LCP_RLockCur(p) ==
    /\ ~crashed
    /\ proc[p].pc = "lcp_rlockCur"
    /\ ~WriteClaimed(proc[p].cur)
    /\ rlock' = [rlock EXCEPT ![p] = @ \cup {proc[p].cur}]
    /\ proc' = [proc EXCEPT ![p].pc = "lcp_cur"]
    /\ UNCHANGED <<seqVars, ctree, live, chandle, nIns, wlock, crashed, insLog, remCalls>>

\* cur is read-locked: GetChild, RUnlock, and the no-match return
LCP_Cur(p) ==
    LET c == proc[p]
        next == ConcurrentNode_GetChild(ctree, c.cur, c.str[c.index + 1])
    IN  /\ ~crashed
        /\ c.pc = "lcp_cur"
        /\ rlock' = [rlock EXCEPT ![p] = @ \ {c.cur}]
        /\ IF next = Nil
           THEN LCPReturn(p, c.commonPrefix, c.val, FALSE)
           ELSE proc' = [proc EXCEPT ![p].pc = "lcp_rlockNext", ![p].cur = next,
                                     ![p].next = next]
        /\ UNCHANGED <<seqVars, ctree, live, chandle, nIns, wlock, crashed, insLog,
                       remCalls>>

\* next.RLock()
LCP_RLockNext(p) ==
    /\ ~crashed
    /\ proc[p].pc = "lcp_rlockNext"
    /\ ~WriteClaimed(proc[p].next)
    /\ rlock' = [rlock EXCEPT ![p] = @ \cup {proc[p].next}]
    /\ proc' = [proc EXCEPT ![p].pc = "lcp_next"]
    /\ UNCHANGED <<seqVars, ctree, live, chandle, nIns, wlock, crashed, insLog, remCalls>>

\* the step that appends the whole text of next to the matched prefix
LCP_Next_WholeText(p) ==
    LET c == proc[p]
        nextText == ctree[c.next].Text
        val == IF ctree[c.next].Val # Nil THEN ctree[c.next].Val ELSE c.val
        isIntermediate == (ctree[c.next].Val = Nil)
        sharedPrefix == longestPrefix(nextText, SliceFrom(c.str, c.index))
        commonPrefix == c.commonPrefix \o nextText
        index == c.index + sharedPrefix
    IN  /\ ~crashed
        /\ c.pc = "lcp_next"
        /\ rlock' = [rlock EXCEPT ![p] = @ \ {c.next}]
        /\ IF sharedPrefix < Len(nextText)
           THEN LCPReturn(p, commonPrefix, val, FALSE)
           ELSE IF index < Len(c.str)
           THEN proc' = [proc EXCEPT ![p].pc = "lcp_rlockCur", ![p].index = index,
                                     ![p].commonPrefix = commonPrefix, ![p].val = val,
                                     ![p].isIntermediate = isIntermediate,
                                     ![p].next = Nil]
           ELSE IF isIntermediate
           THEN proc' = [proc EXCEPT ![p].pc = "dfs_rlock", ![p].index = index,
                                     ![p].commonPrefix = commonPrefix, ![p].val = val,
                                     ![p].isIntermediate = isIntermediate,
                                     ![p].next = Nil, ![p].children = <<c.cur>>]
           ELSE LCPReturn(p, commonPrefix, val, TRUE)
        /\ UNCHANGED <<seqVars, ctree, live, chandle, nIns, wlock, crashed, insLog,
                       remCalls>>

\* next is read-locked: read Text and Val, RUnlock, compare, and the end of
\* the loop
LCP_Next(p) ==
    LET c == proc[p]
        nextText == ctree[c.next].Text
        val == IF ctree[c.next].Val # Nil THEN ctree[c.next].Val ELSE c.val
        isIntermediate == (ctree[c.next].Val = Nil)
        sharedPrefix == longestPrefix(nextText, SliceFrom(c.str, c.index))
        commonPrefix == c.commonPrefix \o SliceTo(nextText, sharedPrefix)
        index == c.index + sharedPrefix
    IN  /\ ~crashed
        /\ c.pc = "lcp_next"
        /\ rlock' = [rlock EXCEPT ![p] = @ \ {c.next}]
        /\ IF sharedPrefix < Len(nextText)
           THEN LCPReturn(p, commonPrefix, val, FALSE)
           ELSE IF index < Len(c.str)
           THEN proc' = [proc EXCEPT ![p].pc = "lcp_rlockCur", ![p].index = index,
                                     ![p].commonPrefix = commonPrefix, ![p].val = val,
                                     ![p].isIntermediate = isIntermediate,
                                     ![p].next = Nil]
           ELSE IF isIntermediate
           THEN proc' = [proc EXCEPT ![p].pc = "dfs_rlock", ![p].index = index,
                                     ![p].commonPrefix = commonPrefix, ![p].val = val,
                                     ![p].isIntermediate = isIntermediate,
                                     ![p].next = Nil, ![p].children = <<c.cur>>]
           ELSE LCPReturn(p, commonPrefix, val, TRUE)
        /\ UNCHANGED <<seqVars, ctree, live, chandle, nIns, wlock, crashed, insLog,
                       remCalls>>

\* dfsNodeForValue: root.RLock() of the next node to visit; children lists the
\* nodes still to visit, the snapshots of the open calls end to end
DFS_RLock(p) ==
    /\ ~crashed
    /\ proc[p].pc = "dfs_rlock"
    /\ ~WriteClaimed(Head(proc[p].children))
    /\ rlock' = [rlock EXCEPT ![p] = @ \cup {Head(proc[p].children)}]
    /\ proc' = [proc EXCEPT ![p].pc = "dfs_node"]
    /\ UNCHANGED <<seqVars, ctree, live, chandle, nIns, wlock, crashed, insLog, remCalls>>

\* dfsNodeForValue: root is read-locked: return its Val, or snapshot its
\* children, RUnlock and go on with them
DFS_Node(p) ==
    LET c == proc[p]
        root == Head(c.children)
    IN  /\ ~crashed
        /\ c.pc = "dfs_node"
        /\ rlock' = [rlock EXCEPT ![p] = @ \ {root}]
        /\ IF ctree[root].Val # Nil
           THEN LCPReturn(p, c.commonPrefix, ctree[root].Val, FALSE)
           ELSE \E children \in Orders(ChildSet(ctree[root])) :
                    LET todo == children \o Tail(c.children)
                    IN  IF todo = <<>>
                        THEN LCPReturn(p, c.commonPrefix, c.val, FALSE)
                        ELSE proc' = [proc EXCEPT ![p].pc = "dfs_rlock",
                                                  ![p].children = todo]
        /\ UNCHANGED <<seqVars, ctree, live, chandle, nIns, wlock, crashed, insLog,
                       remCalls>>

\* -------------------------- ConcurrentTree.MultiLongestCommonPrefixMatch
MultiReturn(p, candidates) ==
    proc' = [proc EXCEPT ![p] = [IdleCall EXCEPT !.pc = "done", !.op = "Multi",
                                                  !.str = proc[p].str,
                                                  !.candidates = candidates]]

\* candidates with the match of node n appended when n holds a value
WithMatch(candidates, index, n, exactMatch) ==
    IF ctree[n].Val # Nil
    THEN Append(candidates, NewMatch(index, ctree[n].Val, exactMatch))
    ELSE candidates

GoMultiLongestCommonPrefixMatch(p, str) ==
    /\ MayStart(p)
    /\ proc' = [proc EXCEPT ![p] =
                  [IdleCall EXCEPT !.pc = IF Len(str) = 0 THEN "mul_rlockEnd"
                                          ELSE "mul_rlockCur",
                                   !.op = "Multi", !.str = str, !.cur = Root]]
    /\ UNCHANGED <<seqVars, ctree, live, chandle, nIns, wlock, rlock, crashed, insLog,
                   remCalls>>

\* cur.RLock() in the loop
Multi_RLockCur(p) ==
    /\ ~crashed
    /\ proc[p].pc = "mul_rlockCur"
    /\ ~WriteClaimed(proc[p].cur)
    /\ rlock' = [rlock EXCEPT ![p] = @ \cup {proc[p].cur}]
    /\ proc' = [proc EXCEPT ![p].pc = "mul_cur"]
    /\ UNCHANGED <<seqVars, ctree, live, chandle, nIns, wlock, crashed, insLog, remCalls>>

\* cur is read-locked: GetChild, the match of cur, RUnlock; the range over
\* cur.Children that follows runs without the lock, in an order Go chooses
Multi_Cur(p) ==
    LET c == proc[p]
        next == ConcurrentNode_GetChild(ctree, c.cur, c.str[c.index + 1])
        candidates == WithMatch(c.candidates, c.index, c.cur, FALSE)
    IN  /\ ~crashed
        /\ c.pc = "mul_cur"
        /\ rlock' = [rlock EXCEPT ![p] = @ \ {c.cur}]
        /\ IF next = Nil
           THEN proc' = [proc EXCEPT ![p].pc = "mul_rlockEnd",
                                     ![p].candidates = candidates]
           ELSE \E order \in Orders(Alphabet) :
                    proc' = [proc EXCEPT ![p].pc = "mul_range", ![p].next = next,
                                         ![p].candidates = candidates,
                                         ![p].children = order]
        /\ UNCHANGED <<seqVars, ctree, live, chandle, nIns, wlock, crashed, insLog,
                       remCalls>>

\* the map keys of an order from the first one that has an entry in n.Children
RECURSIVE SkipAbsent(_, _)
SkipAbsent(n, order) ==
    IF order = <<>> \/ ctree[n].Children[Head(order)] # Nil THEN order
    ELSE SkipAbsent(n, Tail(order))

\* the unlocked range over cur.Children: fetch the next entry of the map as
\* it is now, or leave the range (cur = next)
Multi_Range(p) ==
    LET c == proc[p]
        order == SkipAbsent(c.cur, c.children)
    IN  /\ ~crashed
        /\ c.pc = "mul_range"
        /\ IF order = <<>>
           THEN proc' = [proc EXCEPT ![p].pc = "mul_rlockNext", ![p].cur = c.next,
                                     ![p].children = <<>>]
           ELSE proc' = [proc EXCEPT ![p].pc = "mul_rlockChild",
                                     ![p].child = ctree[c.cur].Children[Head(order)],
                                     ![p].children = Tail(order)]
        /\ UNCHANGED <<seqVars, ctree, live, chandle, nIns, wlock, rlock, crashed, insLog,
                       remCalls>>

\* child.RLock() in the unlocked range
Multi_RLockChild(p) ==
    /\ ~crashed
    /\ proc[p].pc = "mul_rlockChild"
    /\ ~WriteClaimed(proc[p].child)
    /\ rlock' = [rlock EXCEPT ![p] = @ \cup {proc[p].child}]
    /\ proc' = [proc EXCEPT ![p].pc = "mul_child"]
    /\ UNCHANGED <<seqVars, ctree, live, chandle, nIns, wlock, crashed, insLog, remCalls>>

\* child is read-locked: its match, RUnlock
Multi_Child(p) ==
    LET c == proc[p]
    IN  /\ ~crashed
        /\ c.pc = "mul_child"
        /\ rlock' = [rlock EXCEPT ![p] = @ \ {c.child}]
        /\ proc' = [proc EXCEPT ![p].pc = "mul_range", ![p].child = Nil,
                                ![p].candidates =
                                    WithMatch(c.candidates, c.index, c.child, FALSE)]
        /\ UNCHANGED <<seqVars, ctree, live, chandle, nIns, wlock, crashed, insLog,
                       remCalls>>

\* next.RLock()
Multi_RLockNext(p) ==
    /\ ~crashed
    /\ proc[p].pc = "mul_rlockNext"
    /\ ~WriteClaimed(proc[p].next)
    /\ rlock' = [rlock EXCEPT ![p] = @ \cup {proc[p].next}]
    /\ proc' = [proc EXCEPT ![p].pc = "mul_next"]
    /\ UNCHANGED <<seqVars, ctree, live, chandle, nIns, wlock, crashed, insLog, remCalls>>

\* next is read-locked: read Text, RUnlock, compare
Multi_Next(p) ==
    LET c == proc[p]
        matchText == ctree[c.next].Text
        sharedPrefixLength == longestPrefix(matchText, SliceFrom(c.str, c.index))
        index == c.index + sharedPrefixLength
    IN  /\ ~crashed
        /\ c.pc = "mul_next"
        /\ rlock' = [rlock EXCEPT ![p] = @ \ {c.next}]
        /\ IF sharedPrefixLength < Len(matchText)
           THEN proc' = [proc EXCEPT ![p].pc = "mul_rlockEnd", ![p].next = Nil]
           ELSE proc' = [proc EXCEPT ![p].pc = IF index < Len(c.str) THEN "mul_rlockCur"
                                               ELSE "mul_rlockEnd",
                                     ![p].index = index, ![p].next = Nil]
        /\ UNCHANGED <<seqVars, ctree, live, chandle, nIns, wlock, crashed, insLog,
                       remCalls>>

\* cur.RLock() after the loop; it is held until the call returns
Multi_RLockEnd(p) ==
    /\ ~crashed
    /\ proc[p].pc = "mul_rlockEnd"
    /\ ~WriteClaimed(proc[p].cur)
    /\ rlock' = [rlock EXCEPT ![p] = @ \cup {proc[p].cur}]
    /\ proc' = [proc EXCEPT ![p].pc = "mul_end"]
    /\ UNCHANGED <<seqVars, ctree, live, chandle, nIns, wlock, crashed, insLog, remCalls>>

\* cur is read-locked: its match, and the range over its children
Multi_End(p) ==
    LET c == proc[p]
        candidates == IF ctree[c.cur].Val # Nil
                      THEN Append(c.candidates,
                                  NewMatch(c.index, ctree[c.cur].Val, ctree[c.cur].End))
                      ELSE c.candidates
    IN  /\ ~crashed
        /\ c.pc = "mul_end"
        /\ \E order \in Orders(ChildSet(ctree[c.cur])) :
               IF order = <<>>
               THEN /\ MultiReturn(p, candidates)
                    /\ rlock' = [rlock EXCEPT ![p] = {}]
               ELSE /\ proc' = [proc EXCEPT ![p].pc = "mul_rlockEndChild",
                                            ![p].candidates = candidates,
                                            ![p].child = Head(order),
                                            ![p].children = Tail(order)]
                    /\ UNCHANGED rlock
        /\ UNCHANGED <<seqVars, ctree, live, chandle, nIns, wlock, crashed, insLog,
                       remCalls>>

\* child.RLock() with cur read-locked
Multi_RLockEndChild(p) ==
    /\ ~crashed
    /\ proc[p].pc = "mul_rlockEndChild"
    /\ ~WriteClaimed(proc[p].child)
    /\ rlock' = [rlock EXCEPT ![p] = @ \cup {proc[p].child}]
    /\ proc' = [proc EXCEPT ![p].pc = "mul_endChild"]
    /\ UNCHANGED <<seqVars, ctree, live, chandle, nIns, wlock, crashed, insLog, remCalls>>

\* the range that unlocks the children only when the call returns
Multi_EndChild_DeferredRUnlock(p) ==
    LET c == proc[p]
        candidates == WithMatch(c.candidates, c.index, c.child, FALSE)
    IN  /\ ~crashed
        /\ c.pc = "mul_endChild"
        /\ IF c.children = <<>>
           THEN /\ MultiReturn(p, candidates)
                /\ rlock' = [rlock EXCEPT ![p] = {}]
           ELSE /\ proc' = [proc EXCEPT ![p].pc = "mul_rlockEndChild",
                                        ![p].candidates = candidates,
                                        ![p].child = Head(c.children),
                                        ![p].children = Tail(c.children)]
                /\ UNCHANGED rlock
        /\ UNCHANGED <<seqVars, ctree, live, chandle, nIns, wlock, crashed, insLog,
                       remCalls>>

\* child is read-locked: its match, RUnlock; after the last child the
\* deferred cur.RUnlock() and the return
Multi_EndChild(p) ==
    LET c == proc[p]
        candidates == WithMatch(c.candidates, c.index, c.child, FALSE)
    IN  /\ ~crashed
        /\ c.pc = "mul_endChild"
        /\ IF c.children = <<>>
           THEN /\ MultiReturn(p, candidates)
                /\ rlock' = [rlock EXCEPT ![p] = {}]
           ELSE /\ proc' = [proc EXCEPT ![p].pc = "mul_rlockEndChild",
                                        ![p].candidates = candidates,
                                        ![p].child = Head(c.children),
                                        ![p].children = Tail(c.children)]
                /\ rlock' = [rlock EXCEPT ![p] = @ \ {c.child}]
        /\ UNCHANGED <<seqVars, ctree, live, chandle, nIns, wlock, crashed, insLog,
                       remCalls>>

\* ------------------------------------------ ConcurrentTree.RemoveNode
\* the nodes a goroutine can hold: the root and what an Insert has returned
Handles == {Root} \cup ({chandle[k] : k \in Keys} \ {Nil})

GoRemoveNode(p, node) ==
    /\ MayStart(p)
    /\ node \in Handles
    /\ proc' = [proc EXCEPT ![p] = [IdleCall EXCEPT !.pc = "rem_lock", !.op = "RemoveNode",
                                                     !.node = node]]
    /\ remCalls' = [k \in Keys |-> IF chandle[k] = node THEN remCalls[k] + 1
                                   ELSE remCalls[k]]
    /\ live' = [k \in Keys |-> IF chandle[k] = node THEN Nil ELSE live[k]]
    /\ UNCHANGED <<seqVars, ctree, chandle, nIns, wlock, rlock, crashed, insLog>>

\* node.Lock()
Remove_Lock(p) ==
    /\ ~crashed
    /\ proc[p].pc = "rem_lock"
    /\ ~WriteClaimed(proc[p].node)
    /\ wlock' = [wlock EXCEPT ![p] = @ \cup {proc[p].node}]
    /\ proc' = [proc EXCEPT ![p].pc = "rem_node"]
    /\ UNCHANGED <<seqVars, ctree, live, chandle, nIns, rlock, crashed, insLog, remCalls>>

\* node is locked: the body and the deferred Unlock
Remove_Node(p) ==
    LET c == proc[p]
    IN  /\ ~crashed
        /\ c.pc = "rem_node"
        /\ ~ReadHeld(c.node)
        /\ ctree' = ConcurrentTree_RemoveNode(ctree, c.node)
        /\ wlock' = [wlock EXCEPT ![p] = @ \ {c.node}]
        /\ proc' = [proc EXCEPT ![p] = [IdleCall EXCEPT !.pc = "done",
                                                         !.op = "RemoveNode",
                                                         !.node = c.node]]
        /\ UNCHANGED <<seqVars, live, chandle, nIns, rlock, crashed, insLog, remCalls>>

\* -------------------------------------------------- the specifications
InsertStep(p) ==
    \/ Insert_LockCur(p) \/ Insert_Cur(p) \/ Insert_LockNext(p) \/ Insert_Next(p)
    \/ Insert_LockMark(p) \/ Insert_Mark(p)

LCPStep(p) ==
    \/ LCP_RLockCur(p) \/ LCP_Cur(p) \/ LCP_RLockNext(p) \/ LCP_Next(p)
    \/ DFS_RLock(p) \/ DFS_Node(p)

MultiStep(p) ==
    \/ Multi_RLockCur(p) \/ Multi_Cur(p) \/ Multi_Range(p) \/ Multi_RLockChild(p)
    \/ Multi_Child(p) \/ Multi_RLockNext(p) \/ Multi_Next(p) \/ Multi_RLockEnd(p)
    \/ Multi_End(p) \/ Multi_RLockEndChild(p) \/ Multi_EndChild(p)

RemoveStep(p) == Remove_Lock(p) \/ Remove_Node(p)

Step(p) == InsertStep(p) \/ LCPStep(p) \/ MultiStep(p) \/ RemoveStep(p)

\* goroutines that all call Insert, with keys of every length
NextInsert ==
    \/ \E key \in Keys : SetupInsert(key)
    \/ \E p \in Procs : \E key \in Keys : GoInsert(p, key)
    \/ \E p \in Procs : InsertStep(p)

SpecInsert == Init /\ [][NextInsert]_vars

\* goroutines that call any of the four operations, with short keys
NextConc ==
    \/ \E key \in ShortKeys : SetupInsert(key)
    \/ \E p \in Procs : \E key \in ShortKeys : GoInsert(p, key)
    \/ \E p \in Procs : \E str \in ShortQueries : GoLongestCommonPrefixMatch(p, str)
    \/ \E p \in Procs : \E str \in ShortQueries : GoMultiLongestCommonPrefixMatch(p, str)
    \/ \E p \in Procs : \E node \in 1..Len(ctree) : GoRemoveNode(p, node)
    \/ \E p \in Procs : Step(p)

SpecConc == Init /\ [][NextConc]_vars

\* the Go scheduler lets every goroutine that can run take its next step
FairSpecConc == SpecConc /\ \A p \in Procs : WF_vars(Step(p))

\* ==================================================================
\* Claims
\* ==================================================================
IsPrefix(p, s) == Len(p) <= Len(s) /\ SliceTo(s, Len(p)) = p
IsStrictPrefix(p, s) == Len(p) < Len(s) /\ SliceTo(s, Len(p)) = p

\* the nodes linked below the root of an arena
RECURSIVE Linked(_, _)
Linked(t, n) == {n} \cup UNION {Linked(t, c) : c \in ChildSet(t[n])}

\* the triple (key, v, true)
ExactHit(key, v) == [prefix |-> key, val |-> v, exact |-> TRUE]

\* what the two trees answer in the current state
SeqLCP(q) == Tree_LongestCommonPrefixMatch(tree, q)
ConLCP(q) == ConcurrentTree_LongestCommonPrefixMatch(ctree, q)

\* C1 (round trip): after Inserts of distinct keys and no removal, both trees
\* answer LongestCommonPrefixMatch(k) = (k, v, true) for every inserted key k
\* with the value v it was inserted with.
C1_RoundTrip ==
    (nRem = 0 /\ ~dup) =>
        \A k \in Keys :
            live[k] # Nil =>
                /\ SeqLCP(k) = ExactHit(k, live[k])
                /\ \A r \in ConLCP(k) : r = ExactHit(k, live[k])

\* C2 (exactness): on a quiescent ConcurrentTree a non-empty query is answered
\* exact = true if and only if it is a key inserted and not removed since.
C2_ExactIffLiveKey ==
    \A q \in Keys :
        \A r \in ConLCP(q) : r.exact <=> (live[q] # Nil)

\* C3 (prefix miss): on a ConcurrentTree built only by Inserts, a non-empty
\* strict prefix B of an inserted key that was never inserted itself is
\* answered exact = false with the value of some inserted key that has B as a
\* prefix.
C3_PrefixMiss ==
    nRem = 0 =>
        \A B \in Keys :
            (live[B] = Nil /\ \E A \in Keys : live[A] # Nil /\ IsStrictPrefix(B, A)) =>
                \A r \in ConLCP(B) :
                    /\ ~r.exact
                    /\ r.val # Nil
                    /\ \E k \in Keys : live[k] # Nil /\ IsPrefix(B, k) /\ live[k] = r.val

\* every goroutine's call has returned (or was never made)
AllReturned == \A p \in Procs : proc[p].pc \in {"idle", "done"}

\* the root-to-node text paths of the nodes linked at or below n
RECURSIVE PathsBelow(_, _, _)
PathsBelow(t, n, path) ==
    {path \o t[n].Text} \cup
    UNION {PathsBelow(t, c, path \o t[n].Text) : c \in ChildSet(t[n])}

NodePaths(t) == PathsBelow(t, Root, <<>>)

\* the arena a single caller gets by making the recorded Insert calls one
\* after the other in the given order of their numbers
RECURSIVE SerialInserts(_, _)
SerialInserts(t, order) ==
    IF order = <<>> THEN t
    ELSE SerialInserts(ConcurrentTree_Insert(t, insLog[Head(order)], Head(order)).tree,
                       Tail(order))

\* C4, first half: the keys answered exact = true are exactly the inserted ones
C4_ExactlyInsertedKeys ==
    \A k \in Keys : (\A r \in ConLCP(k) : r.exact) <=> (InsCalls(k) > 0)

\* C4, second half: the nodes are those of every serial execution
C4_NodesOfSerialRun ==
    \A order \in Orders(DOMAIN insLog) :
        LET serial == SerialInserts(NewConcurrentTree, order)
        IN  /\ NodePaths(ctree) = NodePaths(serial)
            /\ Cardinality(Linked(ctree, Root)) = Cardinality(Linked(serial, Root))

\* C4 (no lost inserts): once all concurrent Insert calls have returned, the
\* ConcurrentTree contains exactly the inserted keys and its set of nodes
\* (root-to-node text paths, and their number) is that of a serial execution
\* of the same Inserts, whatever the interleaving was.
C4_NoLostInserts ==
    (AllReturned /\ insLog # <<>>) => (C4_ExactlyInsertedKeys /\ C4_NodesOfSerialRun)

\* C5 (no torn reads): a LongestCommonPrefixMatch(k) call that started after
\* the only Insert of k returned, with k never removed, returns (k, v, true)
\* whatever Inserts of other keys ran beside it.
C5_NoTornReads ==
    \A p \in Procs :
        (/\ proc[p].pc = "done" /\ proc[p].op = "LCP"
         /\ proc[p].expect # Nil
         /\ InsCalls(proc[p].str) = 1 /\ remCalls[proc[p].str] = 0) =>
            /\ proc[p].commonPrefix = proc[p].str
            /\ proc[p].val = proc[p].expect
            /\ proc[p].exact

\* the node whose lock goroutine p asks for in its next step, Nil if none
LockWanted(p) ==
    LET c == proc[p]
    IN  IF c.pc \in {"ins_lockCur", "ins_lockMark", "ins_cur", "ins_mark",
                     "lcp_rlockCur", "mul_rlockCur", "mul_rlockEnd"} THEN c.cur
        ELSE IF c.pc \in {"ins_lockNext", "ins_next", "lcp_rlockNext", "mul_rlockNext"}
        THEN c.next
        ELSE IF c.pc \in {"mul_rlockChild", "mul_rlockEndChild"} THEN c.child
        ELSE IF c.pc \in {"rem_lock", "rem_node"} THEN c.node
        ELSE IF c.pc = "dfs_rlock" THEN Head(c.children)
        ELSE Nil

\* p cannot take its next step because of a lock that q holds
WaitsFor(p, q) ==
    /\ LockWanted(p) # Nil
    /\ IF proc[p].pc \in {"ins_cur", "ins_next", "ins_mark", "rem_node"}
       THEN LockWanted(p) \in rlock[q]
       ELSE LockWanted(p) \in wlock[q]

C6_NoWaitCycle ==
    ~ \E C \in SUBSET Procs :
          /\ C # {}
          /\ \A p \in C : \E q \in C : WaitsFor(p, q)

C6_EveryCallReturns ==
    \A p \in Procs : (proc[p].pc # "idle") ~> (proc[p].pc = "done")

\* C6 (deadlock freedom): under fair scheduling every Insert,
\* LongestCommonPrefixMatch, MultiLongestCommonPrefixMatch and RemoveNode call
\* that was made returns, and no reachable state holds a cycle of calls each
\* waiting for a node lock held by another.
C6_DeadlockFreedom == C6_EveryCallReturns /\ []C6_NoWaitCycle

\* C11 (safe no-op): RemoveNode on the root, on a handle whose Parent is nil,
\* or on a node never attached to the tree changes no field of any node, in
\* either tree.
C11_RemoveNoOp ==
    [][/\ CallRemoveRoot => (tree' = tree /\ ctree' = ctree)
       /\ \A key \in Keys :
              CallRemoveAgain(key) =>
                  /\ tree[handle[key]].Parent = Nil => tree' = tree
                  /\ ctree[chandle[key]].Parent = Nil => ctree' = ctree
       /\ \A text \in SeqsOfLen(1) :
              CallRemoveExternal(text) =>
                  /\ tree' = tree /\ ctree' = ctree
                  /\ Tree_RemoveExternal(tree, text) =
                         {Append(tree, NewNode(text, ExternalVal))}
                  /\ ConcurrentTree_RemoveExternal(ctree, text) =
                         Append(ctree, NewConcurrentNode(text, ExternalVal, TRUE))
      ]_vars

\* C12 (empty key): Insert with an empty key returns a nil handle and leaves
\* both trees as they were (so every later lookup is answered as without it).
C12_EmptyInsertNoOp ==
    [][CallInsertEmpty =>
          /\ tree' = tree /\ ctree' = ctree
          /\ last'.node = Nil /\ last'.cnode = Nil
      ]_vars

C12_Witness == last.op = "insertEmpty" /\ nIns > 0 /\ Len(ctree) > 1

\* C13 (lookup miss): a ConcurrentTree without keys answers every query, the
\* empty one included, with an absent value and exact = false; any
\* ConcurrentTree answers so every query whose first unit has no child of the
\* root.
C13_LookupMiss ==
    /\ NumChildren(ctree[Root]) = 0 =>
           \A q \in Queries : \A r \in ConLCP(q) : r.val = Nil /\ ~r.exact
    /\ \A q \in Keys :
           ctree[Root].Children[q[1]] = Nil =>
               \A r \in ConLCP(q) : r.val = Nil /\ ~r.exact

\* the key a node spells: the texts along its parent chain, root first
RECURSIVE PathUp(_, _)
PathUp(t, n) ==
    IF t[n].Parent = Nil THEN t[n].Text ELSE PathUp(t, t[n].Parent) \o t[n].Text

\* the linked nodes that spell key
NodesOf(t, key) == {n \in Linked(t, Root) : PathUp(t, n) = key}

\* the shape of an arena: everything but values and end flags
Shape(t) == [n \in DOMAIN t |-> [Text |-> t[n].Text, Children |-> t[n].Children,
                                 Parent |-> t[n].Parent]]

\* C14 (overwrite): an Insert of a key that already denotes a node leaves the
\* shape of the tree (nodes, texts, children, parents) as it was, leaves one
\* terminal node for the key, and makes LongestCommonPrefixMatch(key) answer
\* (key, new value, true); in both trees.
C14_Overwrite ==
    [][\A key \in Keys :
          CallInsert(key) =>
              /\ NodesOf(tree, key) # {} =>
                     /\ Shape(tree') = Shape(tree)
                     /\ Cardinality({n \in NodesOf(tree', key) : tree'[n].End}) = 1
                     /\ Tree_LongestCommonPrefixMatch(tree', key) = ExactHit(key, nIns')
              /\ NodesOf(ctree, key) # {} =>
                     /\ Shape(ctree') = Shape(ctree)
                     /\ Cardinality({n \in NodesOf(ctree', key) : ctree'[n].End}) = 1
                     /\ ConcurrentTree_LongestCommonPrefixMatch(ctree', key)
                            = {ExactHit(key, nIns')}
      ]_vars

\* two Inserts have made one node: the second one was an overwrite
C14_Witness ==
    /\ last.op = "insert" /\ nIns = 2 /\ nRem = 0
    /\ Len(tree) = 2 /\ Len(ctree) = 2
    /\ SeqLCP(last.key) = ExactHit(last.key, 2)

\* C15 (handle identity): the node an Insert(key, v) returned spells key along
\* its parent chain, and keeps doing so through all later Inserts; in both
\* trees.
C15_HandleIdentity ==
    nRem = 0 =>
        \A k \in Keys :
            /\ handle[k] # Nil => PathUp(tree, handle[k]) = k
            /\ chandle[k] # Nil => PathUp(ctree, chandle[k]) = k

\* a handle whose node was moved below a node made by a later split
C15_Witness ==
    /\ nRem = 0
    /\ \E k \in Keys :
           /\ handle[k] # Nil /\ chandle[k] # Nil
           /\ tree[handle[k]].Parent > handle[k]
           /\ ctree[chandle[k]].Parent > chandle[k]
           /\ Len(ctree[chandle[k]].Text) < Len(k)

\* the keys in the trees when no RemoveNode was called
InsertedKeys == {k \in Keys : live[k] # Nil}

\* the prefixes of q that are prefixes of an inserted key, and the longest
CommonPrefixes(q) ==
    {SliceTo(q, n) : n \in {m \in 0..Len(q) :
                              \E k \in InsertedKeys : IsPrefix(SliceTo(q, m), k)}}

LongestCommonPrefix(q) ==
    CHOOSE p \in CommonPrefixes(q) : \A p2 \in CommonPrefixes(q) : Len(p2) <= Len(p)

\* C16 (matched prefix): on trees built only by Inserts, the prefix that
\* LongestCommonPrefixMatch(q) returns is the longest prefix of q that is a
\* prefix of some inserted key; in both trees.
C16_MatchedPrefix ==
    (nRem = 0 /\ InsertedKeys # {}) =>
        \A q \in Queries :
            /\ SeqLCP(q).prefix = LongestCommonPrefix(q)
            /\ \A r \in ConLCP(q) : r.prefix = LongestCommonPrefix(q)

\* three keys, and a query whose match ends inside an edge
C16_Witness ==
    /\ nRem = 0 /\ Cardinality(InsertedKeys) = 3
    /\ \E q \in Queries :
           /\ SeqLCP(q).prefix # <<>>
           /\ SeqLCP(q).prefix # q
           /\ NodesOf(tree, SeqLCP(q).prefix) = {}

\* the keys in the trees that are a prefix of q or q itself, and the longest
LiveKeyPrefixes(q) == {k \in Keys : live[k] # Nil /\ IsPrefix(k, q)}

LongestLiveKey(q) ==
    CHOOSE k \in LiveKeyPrefixes(q) : \A k2 \in LiveKeyPrefixes(q) : Len(k2) <= Len(k)

\* C17 (longest-key match): whenever some key that is in the tree is a prefix
\* of the query q or q itself, LongestCommonPrefixMatch(q) returns the value of
\* the longest such key; in both trees.
C17_LongestKeyMatch ==
    \A q \in Queries :
        LiveKeyPrefixes(q) # {} =>
            /\ SeqLCP(q).val = live[LongestLiveKey(q)]
            /\ \A r \in ConLCP(q) : r.val = live[LongestLiveKey(q)]

\* the Matches a returned MultiLongestCommonPrefixMatch call of goroutine p gave
MultiDone(p) == proc[p].pc = "done" /\ proc[p].op = "Multi"

Matches(p) == {proc[p].candidates[i] : i \in DOMAIN proc[p].candidates}

\* C18 (Multi exactness): a Match returned by MultiLongestCommonPrefixMatch(q)
\* has Exact = true only when the descent used up q on a terminal node, that
\* is only when its MatchLength is the length of q and q is a key some Insert
\* was called with; a descent that stops on a missing child or inside an
\* edge returns Matches with Exact = false only.
C18_MultiExactness ==
    \A p \in Procs :
        MultiDone(p) =>
            \A m \in Matches(p) :
                m.ExactMatch => (m.MatchLength = Len(proc[p].str) /\ InsCalls(proc[p].str) > 0)

\* no Insert was ever called with a key that starts with the first unit of q
NoMatchingPath(q) ==
    \/ insLog = <<>>
    \/ /\ q # <<>>
       /\ \A i \in DOMAIN insLog : insLog[i][1] # q[1]

\* C19 (Multi miss): MultiLongestCommonPrefixMatch(q) for a query with no
\* matching path (the tree is empty, or no key was inserted that starts with
\* the first unit of q) returns no Match at all: no value of a key that shares
\* no prefix with q, and no Exact = true record.
C19_MultiMiss ==
    \A p \in Procs :
        (MultiDone(p) /\ NoMatchingPath(proc[p].str)) => proc[p].candidates = <<>>

\* C20 (sequential equivalence): after every sequence of Insert and RemoveNode
\* calls of a single caller, LongestCommonPrefixMatch(q) of the ConcurrentTree
\* returns the matched prefix and the exact flag the sequential Tree returns,
\* and the same value whenever the match is exact (on a non-exact match the
\* value may be that of any descendant).
C20_SequentialEquivalence ==
    \A q \in Queries :
        \A r \in ConLCP(q) :
            /\ r.prefix = SeqLCP(q).prefix
            /\ r.exact = SeqLCP(q).exact
            /\ r.exact => r.val = SeqLCP(q).val

\* no goroutine holds or has claimed the lock of a node
NoLockHeld == \A p \in Procs : wlock[p] = {} /\ rlock[p] = {}

\* the nodes of the ConcurrentTree that are reachable from the root
Reachable == Linked(ctree, Root)

\* C21 (prefix-free children): in every state where no call holds a lock,
\* every node reachable from the root other than the root has non-empty text,
\* and every entry Children[x] = c of a reachable node has c.Text[0] = x.
C21_PrefixFreeChildren ==
    NoLockHeld =>
        \A n \in Reachable :
            /\ n # Root => ctree[n].Text # <<>>
            /\ \A x \in Alphabet :
                   LET c == ctree[n].Children[x]
                   IN  c # Nil => (ctree[c].Text # <<>> /\ ctree[c].Text[1] = x)

\* two goroutines have returned from Inserts of which one split a node, and a
\* node below the root has two children
C21_Witness ==
    /\ NoLockHeld
    /\ \A p \in Procs : proc[p].pc = "done" /\ proc[p].op = "Insert"
    /\ \E n \in Reachable \ {Root} : NumChildren(ctree[n]) = 2

\* C22 (parent back-reference): in every state where no call holds a lock,
\* every entry n.Children[x] = c of a reachable node n has c.Parent = n,
\* whatever Inserts and RemoveNode calls ran, one beside the other.
C22_ParentBackReference ==
    NoLockHeld =>
        \A n \in Reachable : \A c \in ChildSet(ctree[n]) : ctree[c].Parent = n

\* an Insert that split a node and a RemoveNode have both returned, and a
\* node that was removed hangs below a node other than the root
C22_Witness ==
    /\ NoLockHeld
    /\ \E p \in Procs : proc[p].pc = "done" /\ proc[p].op = "Insert"
    /\ \E p \in Procs : proc[p].pc = "done" /\ proc[p].op = "RemoveNode"
    /\ \E n \in Reachable \ {Root} : \E c \in ChildSet(ctree[n]) : ctree[c].Deleted

\* C23 (no reachable garbage): after any sequence of Insert and RemoveNode
\* calls on a ConcurrentTree, with no call holding a lock, no node reachable
\* from the root other than the root has End = false and no children.
C23_NoReachableGarbage ==
    NoLockHeld =>
        \A n \in Reachable \ {Root} : ctree[n].End \/ NumChildren(ctree[n]) > 0

\* the reachable nodes of the ConcurrentTree that are marked as the end of a key
Terminals == {n \in Reachable : ctree[n].End}

LinkedLeaf(t, node) ==
    /\ node \in Linked(t, Root) \ {Root}
    /\ NumChildren(t[node]) = 0

\* the parent of the leaf node is left without children and is no end of a key
LeftAsGarbage(t, node) ==
    LET parent == t[node].Parent
    IN  parent # Root /\ NumChildren(t[parent]) = 1 /\ ~t[parent].End

\* RemoveNode(node) took t to t2: a parent left as garbage is unlinked too,
\* and so on upward, so that no node it leaves linked is garbage
CascadeDone(t, t2, node) ==
    LeftAsGarbage(t, node) =>
        /\ t[node].Parent \notin Linked(t2, Root)
        /\ \A n \in Linked(t2, Root) \ {Root} :
               (t2[n].End \/ NumChildren(t2[n]) > 0) \/
               ~(t[n].End \/ NumChildren(t[n]) > 0)

\* RemoveNode(node) took t to t2: a parent that is the end of a key or keeps
\* children stays linked, and a parent that is the end of a key answers
\* lookups of its key as before
ParentKept(t, t2, node) ==
    LET parent == t[node].Parent
    IN  (parent # Root /\ ~LeftAsGarbage(t, node)) =>
            /\ parent \in Linked(t2, Root)
            /\ t[parent].End =>
                   Tree_LongestCommonPrefixMatch(t2, PathUp(t, parent)) =
                       Tree_LongestCommonPrefixMatch(t, PathUp(t, parent))

\* C25 (cascading cleanup): when Tree.RemoveNode unlinks a leaf and leaves its
\* parent without children and with End = false, the parent is unlinked as
\* well, and so on upward, stopping at the root; a parent that is the end of
\* a key or still has children is not unlinked and keeps answering lookups
\* of its own key with its own value.
C25_CascadingCleanup ==
    [][\A key \in Keys :
          (CallRemoveNode(key) /\ LinkedLeaf(tree, handle[key])) =>
              /\ CascadeDone(tree, tree', handle[key])
              /\ ParentKept(tree, tree', handle[key])]_vars

\* C26 (the root is never a key): after any interleaving of Insert and
\* RemoveNode calls on a ConcurrentTree the root's text is empty, its value is
\* absent, its end flag is false, its parent is nil, and Tree.Root is the node
\* it was at construction.
C26_RootUnchanged ==
    /\ ctree[Root].Text = <<>>
    /\ ctree[Root].Val = Nil
    /\ ~ctree[Root].End
    /\ ctree[Root].Parent = Nil
    /\ ~ctree[Root].Deleted

\* a RemoveNode of the root and an Insert that split a child of the root
\* have both returned
C26_Witness ==
    /\ \E p \in Procs : /\ proc[p].pc = "done" /\ proc[p].op = "RemoveNode"
                        /\ proc[p].node = Root
    /\ \E p \in Procs : proc[p].pc = "done" /\ proc[p].op = "Insert"
    /\ \E c \in ChildSet(ctree[Root]) : c > 2

\* the nodes above n in the ConcurrentTree
RECURSIVE Ancestors(_)
Ancestors(n) ==
    IF ctree[n].Parent = Nil THEN {}
    ELSE {ctree[n].Parent} \cup Ancestors(ctree[n].Parent)

\* the locks goroutine p holds at each point of Insert: none when it asks for
\* the lock of cur or of mark, cur when it reads the child and asks for its
\* lock, cur and its child next when it decides and splits
InsertLocksHeld(p) ==
    LET c == proc[p]
    IN  /\ c.pc \in {"ins_lockCur", "ins_lockMark", "done"} => wlock[p] = {}
        /\ c.pc \in {"ins_cur", "ins_mark"} => wlock[p] = {c.cur}
        /\ c.pc \in {"ins_lockNext", "ins_next"} =>
               /\ c.next = ConcurrentNode_GetChild(ctree, c.cur, c.str[c.index + 1])
               /\ ctree[c.next].Parent = c.cur
        /\ c.pc = "ins_lockNext" => wlock[p] = {c.cur}
        /\ c.pc = "ins_next" => wlock[p] = {c.cur, c.next}

\* goroutine p asks for no lock of a node while it holds the lock of a node
\* below it
InsertLockOrder(p) ==
    LockWanted(p) # Nil => \A m \in wlock[p] : LockWanted(p) \notin Ancestors(m)

C27_LocksAtEachPoint ==
    \A p \in Procs : proc[p].op = "Insert" => (InsertLocksHeld(p) /\ InsertLockOrder(p))

\* a step of Insert changes no node but those whose lock the goroutine holds
C27_WritesUnderLock ==
    [][\A p \in Procs :
          InsertStep(p) =>
              \A n \in DOMAIN ctree : ctree'[n] # ctree[n] => n \in wlock[p]]_vars

\* C27 (Insert lock protocol): at every level Insert takes the write lock of
\* the current node and then that of the child it read from the current
\* node's children under that lock, holds both while it decides and while
\* it splits, holds no lock between levels, and never asks for the lock of a
\* node while it holds the lock of a node below it.
C27_InsertLockProtocol == []C27_LocksAtEachPoint /\ C27_WritesUnderLock

\* a goroutine holds cur and next on the second level of its descent, below
\* a node that the Insert of another goroutine made by a split
C27_Witness ==
    \E p, q \in Procs :
        /\ p # q
        /\ proc[p].pc = "ins_next" /\ proc[p].index > 0
        /\ wlock[p] = {proc[p].cur, proc[p].next}
        /\ proc[q].pc = "done" /\ proc[q].op = "Insert"
        /\ proc[p].cur > 2

\* C28 (removal lock protocol): RemoveNode(node) takes the write lock of the
\* node's parent before the write lock of the node, so that whenever it holds
\* the lock of a node that has a parent it holds the lock of that parent too,
\* and it changes the tree with both locks held.
C28_RemovalLockProtocol ==
    \A p \in Procs :
        (/\ proc[p].pc = "rem_node"
         /\ ctree[proc[p].node].Parent # Nil) =>
            ctree[proc[p].node].Parent \in wlock[p]

\* the node locks goroutine p holds, for reading or for writing
LocksHeld(p) == wlock[p] \cup rlock[p]

\* C29 (bounded lock holding): in every reachable state each Insert,
\* LongestCommonPrefixMatch, MultiLongestCommonPrefixMatch or RemoveNode call
\* on a ConcurrentTree holds at most two node locks.
C29_AtMostTwoLocks == \A p \in Procs : Cardinality(LocksHeld(p)) <= 2

\* after the Insert of another goroutine returned, a
\* MultiLongestCommonPrefixMatch holds the read locks of a node and of the
\* second of its two children
C29_Witness ==
    \E p, q \in Procs :
        /\ proc[p].pc = "done" /\ proc[p].op = "Insert"
        /\ proc[q].pc = "mul_endChild" /\ Cardinality(rlock[q]) = 2
        /\ proc[q].children = <<>>
        /\ NumChildren(ctree[proc[q].cur]) = 2

\* C30 (readers hold one lock at a time): LongestCommonPrefixMatch,
\* MultiLongestCommonPrefixMatch and the descendant search never hold the
\* read locks of two nodes at once; each lock is released before the next
\* one is asked for.
C30_ReadersHoldOneLock ==
    \A p \in Procs :
        proc[p].op \in {"LCP", "Multi"} =>
            /\ Cardinality(rlock[p]) <= 1
            /\ (proc[p].pc \in {"lcp_rlockCur", "lcp_rlockNext", "dfs_rlock",
                                "mul_rlockCur", "mul_rlockChild", "mul_rlockNext",
                                "mul_rlockEnd", "mul_rlockEndChild"}) => rlock[p] = {}

\* a lookup reads the fields of a node with the read lock of that node held;
\* at "mul_range" the range over cur.Children is in progress
C31_ReadsUnderLock ==
    \A p \in Procs :
        LET c == proc[p]
        IN  /\ c.pc \in {"lcp_cur", "mul_cur", "mul_end", "mul_range"} => c.cur \in rlock[p]
            /\ c.pc \in {"lcp_next", "mul_next"} => c.next \in rlock[p]
            /\ c.pc \in {"mul_child", "mul_endChild"} => c.child \in rlock[p]
            /\ c.pc = "dfs_node" => Head(c.children) \in rlock[p]

\* a step of a call changes no node but those whose write lock the call holds
C31_WritesHoldLock ==
    [][\A p \in Procs :
          Step(p) =>
              \A n \in DOMAIN ctree : ctree'[n] # ctree[n] => n \in wlock[p]]_vars

\* no write to the children map of a node falls into a range over that map
C31_NoMapOverlap ==
    [][\A n \in DOMAIN ctree :
          ctree'[n].Children # ctree[n].Children => ~Ranging(n)]_vars

\* C31 (no unlocked access): every write to a field of a reachable node is
\* made by a call that holds the node's write lock, every read of those
\* fields by a lookup is made with the node's read lock held, and so no read
\* of a node's children map overlaps a write to it.
C31_NoUnlockedAccess == []C31_ReadsUnderLock /\ C31_WritesHoldLock /\ C31_NoMapOverlap

\* the node the last Insert returned is the end of a key and holds the value
\* of that Insert, in the Tree and in the ConcurrentTree
C32_Seq == last.op = "insert" => (tree[last.node].End /\ tree[last.node].Val = nIns)

C32_Con == last.op = "insert" => (ctree[last.cnode].End /\ ctree[last.cnode].Val = nIns)

\* C32 (returned node is terminal): the node h that Insert(key, v) returns
\* has h.End = true and h.Val = v when the call returns, whether h is a new
\* leaf, the node a split made for a key that ends on it, or a node that is
\* overwritten.
C32_ReturnedNodeTerminal == C32_Seq /\ C32_Con

\* Insert(key, v) took the arena t to t2 and split an edge: the node it made
\* for the shared prefix, the first new node, which has an old node as a child
SplitNode(t, t2) ==
    IF /\ Len(t2) > Len(t)
       /\ \E c \in ChildSet(t2[Len(t) + 1]) : c <= Len(t)
    THEN Len(t) + 1 ELSE Nil

\* the node made by the split has the shared prefix as its text, holds v, and
\* is no end of a key when the key goes on below it
PlaceholderSet(t, t2, key, v) ==
    LET n == SplitNode(t, t2)
    IN  n # Nil =>
            /\ \E c \in ChildSet(t2[n]) :
                   /\ c <= Len(t)
                   /\ t2[n].Text \o t2[c].Text = t[c].Text
                   /\ PathUp(t2, n) = SliceTo(key, longestPrefix(PathUp(t, c), key))
            /\ t2[n].Val = v
            /\ PathUp(t2, n) # key => ~t2[n].End

\* an Insert of the key that a node with a placeholder spells stores v in
\* that node and makes it the end of a key
PlaceholderOverwritten(t, t2, key, v) ==
    \A n \in NodesOf(t, key) :
        (~t[n].End /\ NumChildren(t[n]) > 0) => (t2[n].Val = v /\ t2[n].End)

\* C33 (split placeholder): the node an Insert(key, v) makes when it splits
\* an edge has the shared prefix as its text, End = false when key goes on
\* past it, and holds v as its placeholder value; a later Insert that ends
\* exactly on that node overwrites the placeholder and sets End. In both
\* trees.
C33_SplitPlaceholder ==
    [][\A key \in Keys :
          CallInsert(key) =>
              /\ PlaceholderSet(tree, tree', key, nIns')
              /\ PlaceholderSet(ctree, ctree', key, nIns')
              /\ PlaceholderOverwritten(tree, tree', key, nIns')
              /\ PlaceholderOverwritten(ctree, ctree', key, nIns')]_vars

\* the nodes of arena t that the query q matches in full: the linked nodes
\* that spell a prefix of q; and the last (deepest) of them
FullyMatched(t, q) == {n \in Linked(t, Root) : IsPrefix(PathUp(t, n), q)}

LastFullyMatched(t, q) ==
    CHOOSE n \in FullyMatched(t, q) :
        \A m \in FullyMatched(t, q) : Len(PathUp(t, m)) <= Len(PathUp(t, n))

\* the descent for q stops early: no linked node spells q
EarlyStop(t, q) == NodesOf(t, q) = {}

C34_Seq ==
    \A q \in Queries :
        EarlyStop(tree, q) =>
            /\ SeqLCP(q).val = tree[LastFullyMatched(tree, q)].Val
            /\ ~SeqLCP(q).exact

C34_Con ==
    \A q \in Queries :
        EarlyStop(ctree, q) =>
            \A r \in ConLCP(q) :
                /\ r.val = ctree[LastFullyMatched(ctree, q)].Val
                /\ ~r.exact

\* C34 (value on an early stop): when the descent of
\* LongestCommonPrefixMatch stops on a missing child or inside an edge, the
\* value returned is the one stored in the last node that was matched in
\* full (not that of the partly matched child, not that of a node further
\* up), and exact = false.
C34_ValueOnEarlyStop == C34_Seq /\ C34_Con

\* the child of the last fully matched node that q matches in part, if any
PartlyMatched(t, q) ==
    LET n == LastFullyMatched(t, q)
        k == Len(PathUp(t, n))
    IN  IF k < Len(q) /\ t[n].Children[q[k + 1]] # Nil
        THEN {t[n].Children[q[k + 1]]} ELSE {}

\* the nodes the descent for q enters, out of the linked nodes whose spelt
\* paths are given: the root, and every node whose parent is fully matched
\* and whose edge starts with the next unit of q
Entered(t, paths, q) ==
    {n \in DOMAIN paths :
        \/ n = Root
        \/ /\ t[n].Parent \in DOMAIN paths
           /\ LET pp == paths[t[n].Parent]
              IN  /\ IsPrefix(pp, q)
                  /\ Len(pp) < Len(q)
                  /\ t[n].Text[1] = q[Len(pp) + 1]}

\* the value of the deepest node entered that holds one (Nil when none does)
DeepestValue(t, paths, q) ==
    LET valued == {n \in Entered(t, paths, q) : t[n].Val # Nil}
    IN  IF valued = {} THEN Nil
        ELSE t[CHOOSE n \in valued :
                 \A m \in valued : Len(paths[m]) <= Len(paths[n])].Val

\* C34 as amended: when the descent stops on a missing child or inside an
\* edge, exact = false and the value returned is the one of the deepest node
\* the descent entered that holds a value, the partly matched child
\* included; it is absent when no node entered holds one.
C34_ValueOfDeepestEntered ==
    LET spaths == [n \in Linked(tree, Root) |-> PathUp(tree, n)]
        cpaths == [n \in Linked(ctree, Root) |-> PathUp(ctree, n)]
    IN  \A q \in Queries :
            /\ (\A n \in DOMAIN spaths : spaths[n] # q) =>
                   LET r == SeqLCP(q)
                   IN  r.val = DeepestValue(tree, spaths, q) /\ ~r.exact
            /\ (\A n \in DOMAIN cpaths : cpaths[n] # q) =>
                   \A r \in ConLCP(q) :
                       (r.val = DeepestValue(ctree, cpaths, q) /\ ~r.exact)

\* a query stops inside an edge below a node other than the root, and the
\* partly matched child holds another value than the node above it
C34_Witness ==
    \E q \in Queries :
        /\ EarlyStop(tree, q) /\ EarlyStop(ctree, q)
        /\ LastFullyMatched(tree, q) # Root /\ LastFullyMatched(ctree, q) # Root
        /\ \E c \in PartlyMatched(tree, q) :
               tree[c].Val # tree[LastFullyMatched(tree, q)].Val
        /\ \E c \in PartlyMatched(ctree, q) :
               /\ ctree[c].Val # Nil /\ ctree[LastFullyMatched(ctree, q)].Val # Nil
               /\ ctree[c].Val # ctree[LastFullyMatched(ctree, q)].Val

\* v is the current value of a key that is in the trees and that lies on one
\* path with prefix: the key extends prefix, or is a prefix of it
LiveUnder(prefix, v) ==
    \E k \in Keys : /\ live[k] # Nil /\ live[k] = v
                    /\ (IsPrefix(prefix, k) \/ IsPrefix(k, prefix))

C35_Seq == \A q \in Queries :
               SeqLCP(q).val # Nil => LiveUnder(SeqLCP(q).prefix, SeqLCP(q).val)

C35_Con == \A q \in Queries :
               \A r \in ConLCP(q) : r.val # Nil => LiveUnder(r.prefix, r.val)

\* C35 (returned values are live): a present value returned by
\* LongestCommonPrefixMatch(q) is the current value of some key that is in the
\* tree (inserted, not removed, latest value) and that shares the returned
\* matchedPrefix; in both trees.
C35_ReturnedValuesLive == C35_Seq /\ C35_Con

\* goroutine p's MultiLongestCommonPrefixMatch call ran with no other call in
\* progress: it has returned and no other goroutine has made a call
MultiRanAlone(p) == MultiDone(p) /\ \A o \in Procs \ {p} : proc[o].pc = "idle"

\* C36 (lookup agreement): on a ConcurrentTree with no call in progress,
\* MultiLongestCommonPrefixMatch(q) contains a Match with Exact = true if and
\* only if LongestCommonPrefixMatch(q) returns exact = true, and then the
\* exact Match carries the same value and MatchLength = len(q).
C36_LookupAgreement ==
    \A p \in Procs :
        MultiRanAlone(p) =>
            \A r \in ConLCP(proc[p].str) :
                /\ (\E m \in Matches(p) : m.ExactMatch) <=> r.exact
                /\ r.exact => \A m \in Matches(p) :
                                  m.ExactMatch => /\ m.Value = r.val
                                                  /\ m.MatchLength = Len(proc[p].str)

\* the MatchLengths of a list of Matches never decrease along the list
NonDecreasing(candidates) ==
    \A i, j \in DOMAIN candidates :
        i < j => candidates[i].MatchLength <= candidates[j].MatchLength

\* C37 (matched prefix is a prefix of the query): under every interleaving
\* with Inserts and RemoveNode calls, the matchedPrefix a returned
\* LongestCommonPrefixMatch(q) gave is a prefix of q, and every MatchLength a
\* returned MultiLongestCommonPrefixMatch(q) gave lies in 0..len(q) and the
\* MatchLengths do not decrease along the list.
C37_PrefixOfQuery ==
    \A p \in Procs :
        /\ (proc[p].pc = "done" /\ proc[p].op = "LCP") =>
               IsPrefix(proc[p].commonPrefix, proc[p].str)
        /\ MultiDone(p) =>
               /\ \A m \in Matches(p) : m.MatchLength \in 0..Len(proc[p].str)
               /\ NonDecreasing(proc[p].candidates)

\* a LongestCommonPrefixMatch that stopped inside an edge has returned a
\* non-empty strict prefix of its query, while the other goroutine called
\* Insert or RemoveNode
C37_Witness ==
    \E p, o \in Procs :
        /\ p # o
        /\ proc[p].pc = "done" /\ proc[p].op = "LCP"
        /\ proc[p].commonPrefix # <<>>
        /\ Len(proc[p].commonPrefix) < Len(proc[p].str)
        /\ proc[o].pc = "done" /\ proc[o].op \in {"Insert", "RemoveNode"}

\* every key inserted has been removed
AllRemoved == nIns > 0 /\ \A k \in Keys : live[k] = Nil

\* C38 (remove-all returns to empty): in the sequential Tree, after Inserts of
\* distinct non-empty keys and then one RemoveNode on the handle of each key,
\* in any order, the root has no children and every
\* LongestCommonPrefixMatch returns an absent value with exact = false.
C38_RemoveAllEmpty ==
    AllRemoved =>
        /\ NumChildren(tree[Root]) = 0
        /\ \A q \in Queries : SeqLCP(q).val = Nil /\ ~SeqLCP(q).exact

\* three keys were inserted, one of them by a split, and all were removed
C38_Witness ==
    /\ AllRemoved
    /\ nIns = MaxInserts /\ nRem = MaxInserts
    /\ Len(tree) > MaxInserts + 1

\* the lookups find key with value v, and exactly one linked node spells key;
\* it is marked as a key and, in the ConcurrentTree, not flagged deleted
ReinsertedSeq(t, key, v) ==
    /\ Tree_LongestCommonPrefixMatch(t, key) = ExactHit(key, v)
    /\ Cardinality(NodesOf(t, key)) = 1
    /\ \A n \in NodesOf(t, key) : t[n].End

ReinsertedCon(t, key, v) ==
    /\ ConcurrentTree_LongestCommonPrefixMatch(t, key) = {ExactHit(key, v)}
    /\ Cardinality(NodesOf(t, key)) = 1
    /\ \A n \in NodesOf(t, key) : t[n].End /\ ~t[n].Deleted

\* the keys in the trees other than key are answered with the same value by
\* the arenas t and t2
OthersKeepSeq(t, t2, key) ==
    \A k \in Keys \ {key} :
        live[k] # Nil => Tree_LongestCommonPrefixMatch(t2, k).val
                           = Tree_LongestCommonPrefixMatch(t, k).val

OthersKeepCon(t, t2, key) ==
    \A k \in Keys \ {key} :
        live[k] # Nil => {r.val : r \in ConcurrentTree_LongestCommonPrefixMatch(t2, k)}
                           = {r.val : r \in ConcurrentTree_LongestCommonPrefixMatch(t, k)}

\* the step is Insert(key, v') right after RemoveNode on the handle of key
Reinsert(key) == last.op = "remove" /\ last.key = key /\ CallInsert(key)

C39_Seq ==
    [][\A key \in Keys :
          Reinsert(key) => /\ ReinsertedSeq(tree', key, nIns')
                           /\ OthersKeepSeq(tree, tree', key)]_vars

C39_Con ==
    [][\A key \in Keys :
          Reinsert(key) => /\ ReinsertedCon(ctree', key, nIns')
                           /\ OthersKeepCon(ctree, ctree', key)]_vars

\* C39 (re-insert after removal): after RemoveNode(h) for key k followed by
\* Insert(k, v'), LongestCommonPrefixMatch(k) returns (k, v', true), the tree
\* holds exactly one node spelling k and it is marked as a live key (not
\* flagged deleted), and every other key keeps its value; in both trees.
C39_ReinsertAfterRemoval == C39_Seq /\ C39_Con

\* C7 (structural unlink): after ConcurrentTree.RemoveNode(h) of a live node
\* without children, h is no child of its former parent and h.Parent is nil;
\* and no node linked in the tree is flagged Deleted.
C7_LeafRemovalUnlinks ==
    /\ (last.op = "remove" /\ last.cleaf) =>
           /\ last.cnode \notin ChildSet(ctree[last.cparent])
           /\ ctree[last.cnode].Parent = Nil
    /\ \A n \in Linked(ctree, Root) : ~ctree[n].Deleted

\* C8 (removal frame): Tree.RemoveNode of the handle of key k leaves every
\* other key that answered (k', v', true) answering the same.
C8_RemovalPreservesOthers ==
    [][\A key \in Keys :
          CallRemoveNode(key) =>
              \A k \in Keys \ {key} :
                  (live[k] # Nil /\ SeqLCP(k) = ExactHit(k, live[k])) =>
                      Tree_LongestCommonPrefixMatch(tree', k) = ExactHit(k, live[k])]_vars

\* C9 (removed stays removed): a key that was removed from the ConcurrentTree
\* and not inserted again is never answered exact = true.
C9_RemovedStaysRemoved ==
    \A k \in Keys :
        (chandle[k] # Nil /\ live[k] = Nil) =>
            \A r \in ConLCP(k) : ~r.exact

\* C10 (internal key): after RemoveNode(h) of a node with children the node
\* stays linked; its key is answered exact = false with the value of a key
\* below it, and every key below it keeps its own value, in both trees.
C10_Seq ==
    (last.op = "remove" /\ ~last.leaf) =>
        /\ last.node \in Linked(tree, Root)
        /\ ~SeqLCP(last.key).exact
        /\ \E k \in Keys : /\ live[k] # Nil /\ IsStrictPrefix(last.key, k)
                           /\ SeqLCP(last.key).val = live[k]
        /\ \A k \in Keys : (live[k] # Nil /\ IsStrictPrefix(last.key, k)) =>
                               SeqLCP(k) = ExactHit(k, live[k])

C10_Con ==
    (last.op = "remove" /\ ~last.cleaf) =>
        /\ last.cnode \in Linked(ctree, Root)
        /\ \A r \in ConLCP(last.key) :
               /\ ~r.exact
               /\ \E k \in Keys : /\ live[k] # Nil /\ IsStrictPrefix(last.key, k)
                                  /\ r.val = live[k]
        /\ \A k \in Keys : (live[k] # Nil /\ IsStrictPrefix(last.key, k)) =>
                               \A r \in ConLCP(k) : r = ExactHit(k, live[k])

C10_InternalRemoval == C10_Seq /\ C10_Con

====
